---- MODULE Spec2Model ----
(***************************************************************************)
(* State-machine model of lightautoml/automl/base.py: class AutoML.        *)
(*                                                                         *)
(* AutoML sequences levels of MLPipelines, feeds the predictions of one    *)
(* level to the next one (optionally together with the level's own input,  *)
(* skip_conn), watches a PipelineTimer and hands the last level to a       *)
(* Blender.  Reader, MLPipeline, PipelineTimer, Blender, concatenate and   *)
(* create_validation_iterator are collaborators imported by base.py; they  *)
(* are modelled at their interface.                                        *)
(*                                                                         *)
(* A Dataset is a record [klass, cols]: its concrete type and the ordered  *)
(* list of its column names.  A pipeline is identified by its position     *)
(* <<i, j>> (1-based) in the configured levels.                            *)
(***************************************************************************)
EXTENDS Integers, Sequences, FiniteSets, TLC

\* ------------------------------------------------------------------------
\* Bounds of the model
\* ------------------------------------------------------------------------
MaxLevels == 3      \* longest configured list of levels
MaxPipes == 2       \* most pipelines in one level
NFeat == 2          \* number of feature columns the Reader produces

\* Behaviour of the pipelines of one run: `width` columns in the prediction
\* Dataset a pipeline emits, at most `span` input columns reported as used
PipeBehaviours == {[width |-> 1, span |-> 1], [width |-> 2, span |-> 2]}

VARIABLES
    pc,                 \* position of the control flow
    outcome,            \* how the last call ended
    arg_levels,         \* constructor argument `levels`
    _levels,            \* self._levels
    has__levels,        \* FALSE once `del self._levels` ran (or before construction)
    levels,             \* self.levels
    skip_conn,          \* self.skip_conn
    model_names,        \* prefixes each pipeline received through upd_model_names, in order
    args,               \* arguments and collaborator behaviour of the running fit_predict
    n,                  \* fit_predict: level counter of enumerate(self._levels, 1)
    k,                  \* fit_predict: number of pipelines of the level already fitted
    pipes,              \* fit_predict: local pipes
    level_predictions,  \* fit_predict: local level_predictions
    flg_last_level,     \* fit_predict: local flg_last_level
    train_valid,        \* fit_predict: local train_valid (a ValidationIterator)
    child_out_of_time,  \* self.timer.child_out_of_time
    reader_used,        \* self.reader.used_features
    pipe_used,          \* pipe.used_features of every pipeline
    blended_prediction, \* value returned by the last fit_predict / predict
    hist                \* observation record: what the run did, in order

vars == <<pc, outcome, arg_levels, _levels, has__levels, levels, skip_conn,
          model_names, args, n, k, pipes, level_predictions, flg_last_level,
          train_valid, child_out_of_time, reader_used, pipe_used,
          blended_prediction, hist>>

\* ------------------------------------------------------------------------
\* Datasets and collaborators
\* ------------------------------------------------------------------------
Range(s) == {s[i] : i \in 1..Len(s)}

RECURSIVE Flatten(_)
Flatten(ss) == IF ss = <<>> THEN <<>> ELSE Head(ss) \o Flatten(Tail(ss))

NoDataset == [klass |-> "None", cols |-> <<>>]

FeatCol(f) == [kind |-> "feat", lvl |-> 0, pip |-> 0, col |-> f]
PredCol(p, c) == [kind |-> "pred", lvl |-> p[1], pip |-> p[2], col |-> c]
BlendCol(c) == [kind |-> "blend", lvl |-> 0, pip |-> 0, col |-> c]

Features == {FeatCol(f) : f \in 1..NFeat}

\* Reader.fit_read / Reader.read: the Dataset of the given features, in the
\* order of the raw input's columns.
ReaderDataset(feats) ==
    [klass |-> "input",
     cols |-> SelectSeq([f \in 1..NFeat |-> FeatCol(f)], LAMBDA c : c \in feats)]

\* Reader.upd_used_features(remove=...)
upd_used_features(used, remove) == used \ remove

\* MLPipeline.fit_predict / MLPipeline.predict: a prediction Dataset of the
\* pipeline's own columns.
PipePrediction(p, width) ==
    [klass |-> "prediction", cols |-> [c \in 1..width |-> PredCol(p, c)]]

\* pipe.used_features after the fit: columns of the pipeline's input (at most
\* `span` of them, starting at the pipeline's position in its level).
PipeUsedFeatures(p, ds, span) ==
    {ds.cols[c] : c \in {c \in 1..Len(ds.cols) : p[2] <= c /\ c < p[2] + span}}

\* dataset.utils.concatenate: column-wise, in the order given (of no Dataset
\* at all, which an empty level yields: a Dataset without columns).
concatenate(datasets) ==
    [klass |-> IF datasets = <<>> THEN "prediction" ELSE datasets[1].klass,
     cols |-> Flatten([i \in 1..Len(datasets) |-> datasets[i].cols])]

\* LAMLDataset.from_dataset: the other Dataset's columns in this Dataset's type.
from_dataset(self, other) == [klass |-> self.klass, cols |-> other.cols]

\* validation.utils.create_validation_iterator
create_validation_iterator(train, valid, cv_iter) ==
    [train |-> train, valid |-> valid, cv_iter |-> cv_iter]

\* ValidationIterator.get_validation_data
get_validation_data(tv) == IF tv.valid = NoDataset THEN tv.train ELSE tv.valid

\* Blender.fit_predict may keep any of the pipelines, in their order.
RECURSIVE SubSeqs(_)
SubSeqs(s) ==
    IF s = <<>> THEN {<<>>}
    ELSE LET rest == SubSeqs(Tail(s))
         IN rest \cup {<<Head(s)>> \o r : r \in rest}

\* Pipeline.ml_algos: the trainable units of pipeline p, each with its name
\* and the number of its trained models.  Every pipeline has three units;
\* the first and the third have the same name, and the names are the same in
\* every pipeline.
ml_algos(p) ==
    <<[name |-> "Linear", models |-> p[1]],
      [name |-> "LightGBM", models |-> p[2]],
      [name |-> "Linear", models |-> p[1] + p[2]]>>

\* Blender.fit_predict / Blender.predict: one blended prediction Dataset.
BlenderOutput(width) ==
    [klass |-> "prediction", cols |-> [c \in 1..width |-> BlendCol(c)]]

\* ------------------------------------------------------------------------
\* Configurations and the observation record
\* ------------------------------------------------------------------------
LevelOf(i, size) == [j \in 1..size |-> <<i, j>>]

Configs ==
    UNION {{[i \in 1..len |-> LevelOf(i, sizes[i])] :
                sizes \in [1..len -> 0..MaxPipes]} : len \in 0..MaxLevels}

AllPipes == {<<i, j>> : i \in 1..MaxLevels, j \in 1..MaxPipes}

NoName == <<>>

\* name_prefix without the position of the pipeline in its level
name_prefix_level_only(i, j) == "Lvl_" \o ToString(i)

\* line 98: 'Lvl_{0}_Pipe_{1}'.format(i, j)
name_prefix(i, j) == "Lvl_" \o ToString(i) \o "_Pipe_" \o ToString(j)

NoArgs == [folds |-> FALSE, cv_iter |-> FALSE, valid_data |-> FALSE,
           width |-> 1, span |-> 1]

\* the errors base.py raises (lines 81, 124, 127, 185 and 234)
EmptyLevelsError == "AssertionError: At least 1 level should be defined"
FoldsError == "AssertionError: Not possible to fit more than 1 level without cv folds"
HoldoutError == "AssertionError: Not possible to fit more than 1 level with holdout validation"
NoLevelsError == "AttributeError: 'AutoML' object has no attribute '_levels'"
ConversionError == "TypeError: Can not convert prediction dataset type to input features. Set skip_conn=False"

\* One entry of hist.trace: a call the orchestrator made (or a config check).
Ev(op, lvl, pip, flag) == [op |-> op, lvl |-> lvl, pip |-> pip, flag |-> flag]

NoHist == [trace |-> <<>>,            \* calls made by fit_predict, in order
           inputs |-> <<>>,           \* Dataset fed to level 1, 2, ... by fit_predict
           blender_preds |-> <<>>,    \* arguments of Blender.fit_predict
           blender_pipes |-> <<>>,
           last_pipes |-> <<>>,       \* pruned pipelines Blender.fit_predict returned
           reader_before |-> {},      \* reader.used_features before line 196
           collected |-> {},          \* collect_used_feats() at line 196
           last_call |-> "none",      \* last method called on the trained orchestrator;
                                      \* the fields below describe that call
           model_stats |-> <<>>,      \* what collect_model_stats returned
           predict_calls |-> 0,       \* 1 when the last call was predict
           predict_rejects |-> 0,     \* level whose predictions the last predict
                                      \* could not convert (0: none)
           predict_outcome |-> "none",
           predict_trace |-> <<>>,    \* calls made by the last predict
           predict_inputs |-> <<>>,   \* Dataset fed to level 1, 2, ... by the last predict
           predict_out |-> NoDataset]

Ops(trace, op) == SelectSeq(trace, LAMBDA e : e.op = op)

\* pipelines fitted so far, in order
Fits(trace) ==
    LET fits == Ops(trace, "fit")
    IN [i \in 1..Len(fits) |-> <<fits[i].lvl, fits[i].pip>>]

Init ==
    /\ pc = "new"
    /\ outcome = "none"
    /\ arg_levels \in Configs
    /\ skip_conn \in BOOLEAN
    /\ _levels = <<>>
    /\ has__levels = FALSE
    /\ levels = <<>>
    /\ model_names = [p \in AllPipes |-> NoName]
    /\ args = NoArgs
    /\ n = 0
    /\ k = 0
    /\ pipes = <<>>
    /\ level_predictions = <<>>
    /\ flg_last_level = FALSE
    /\ train_valid = create_validation_iterator(NoDataset, NoDataset, FALSE)
    /\ child_out_of_time = FALSE
    /\ reader_used = {}
    /\ pipe_used = [p \in AllPipes |-> {}]
    /\ blended_prediction = NoDataset
    /\ hist = NoHist

\* ------------------------------------------------------------------------
\* AutoML._initialize (lines 66-100)
\* ------------------------------------------------------------------------
_initialize ==
    /\ pc = "new"
    /\ IF Len(arg_levels) > 0
       THEN /\ _levels' = arg_levels
            /\ has__levels' = TRUE
            /\ model_names' =
                 [p \in AllPipes |->
                    IF p[1] <= Len(arg_levels) /\ p[2] <= Len(arg_levels[p[1]])
                    THEN Append(model_names[p], name_prefix(p[1] - 1, p[2] - 1))
                    ELSE model_names[p]]
            /\ pc' = "ready"
            /\ UNCHANGED outcome
       ELSE /\ pc' = "failed"
            /\ outcome' = EmptyLevelsError
            /\ UNCHANGED <<_levels, has__levels, model_names>>
    /\ UNCHANGED <<arg_levels, levels, skip_conn, args, n, k, pipes,
                   level_predictions, flg_last_level, train_valid,
                   child_out_of_time, reader_used, pipe_used,
                   blended_prediction, hist>>

\* ------------------------------------------------------------------------
\* AutoML.fit_predict (lines 102-199)
\* ------------------------------------------------------------------------
\* folds_assert without the check (a run without folds goes on)
folds_assert_dropped(lv, folds) == TRUE

\* line 123: assert len(self._levels) <= 1 or train_dataset.folds is not None
folds_assert(lv, folds) == Len(lv) <= 1 \/ folds

\* holdout_assert without the check (holdout data is accepted with any depth)
holdout_assert_dropped(lv, valid_data) == TRUE

\* line 126: assert len(self._levels) <= 1 or valid_data is None
holdout_assert(lv, valid_data) == Len(lv) <= 1 \/ ~valid_data

\* last_level_flag that already marks the level before the last one
last_level_flag_early(m, lv) == m >= Len(lv) - 1

\* line 147: flg_last_level = n == len(self._levels)
last_level_flag(m, lv) == m = Len(lv)

\* flag_after_fit without `flg_last_level = True` before the break
flag_after_fit_unset(flg, exceeded) == flg

\* lines 159-164: flg_last_level after the Timer's answer to time_limit_exceeded()
flag_after_fit(flg, exceeded) == IF exceeded THEN TRUE ELSE flg

\* pc_after_fit raising on an exceeded budget instead of leaving the loop
pc_after_fit_raise(exceeded) == IF exceeded THEN "failed" ELSE "pipe_loop"

\* lines 151, 159-164: break out of the pipeline loop, or go on with it
pc_after_fit(exceeded) == IF exceeded THEN "level_split" ELSE "pipe_loop"

\* flag_after_loop without the look at timer.child_out_of_time
flag_after_loop_ignored(flg, child) == flg

\* lines 165-171: flg_last_level after the else branch of the pipeline loop
flag_after_loop(flg, child) == IF child THEN TRUE ELSE flg

\* conversion_raises with the TypeError swallowed: the run goes on
conversion_swallowed(skip, converts) == FALSE

\* lines 179-185: the TypeError of from_dataset is raised again
conversion_raises(skip, converts) == skip /\ ~converts

\* skip_merge with the validation part of the first iterator (the Reader's
\* features) in the place of the current iterator's
skip_merge_original(conc, tv) ==
    concatenate(<<from_dataset(hist.inputs[1], conc), hist.inputs[1]>>)

\* lines 180-186: the prediction Dataset merged with the iterator's validation part
skip_merge(conc, tv) ==
    LET valid_part == get_validation_data(tv)
    IN concatenate(<<from_dataset(valid_part, conc), valid_part>>)

\* del_levels that leaves the attribute in place
del_levels_skipped(has) == has

\* line 198: del self._levels
del_levels(has) == FALSE

\* predictions_at_level_start that keeps the predictions of the levels before
predictions_at_level_start_kept(preds) == preds

\* line 146: level_predictions = []
predictions_at_level_start(preds) == <<>>

\* predictions_append putting the new prediction first
predictions_append_front(preds, pipe_pred) == <<pipe_pred>> \o preds

\* line 154: level_predictions.append(pipe_pred)
predictions_append(preds, pipe_pred) == Append(preds, pipe_pred)

\* levels_append that does not record the level
levels_append_skipped(lv, ps) == lv

\* levels_append putting the new level first
levels_append_front(lv, ps) == <<ps>> \o lv

\* line 176 / line 194: self.levels.append(...)
levels_append(lv, ps) == Append(lv, ps)

\* collect_used_feats over every pipeline that was fitted, retained or not
collect_used_feats_all(lv, used) == UNION {used[p] : p \in AllPipes}

\* AutoML.collect_used_feats (lines 243-258) over self.levels = lv, where
\* used[p] is pipe.used_features of pipeline p
collect_used_feats(lv, used) ==
    UNION {used[lv[i][j]] : <<i, j>> \in
              {<<i, j>> \in (1..Len(lv)) \X (1..MaxPipes) : j <= Len(lv[i])}}

\* unused_features with the difference taken the wrong way round
unused_features_swapped(used, collected) == collected \ used

\* line 196: the features handed to upd_used_features as remove=
unused_features(used, collected) == used \ collected

\* Head of the level loop (lines 140-149) for level m fed by iterator tv.
EnterLevel(m, tv, trace) ==
    /\ n' = m
    /\ k' = 0
    /\ pipes' = <<>>
    /\ level_predictions' = predictions_at_level_start(level_predictions)
    /\ flg_last_level' = last_level_flag(m, _levels)
    /\ train_valid' = tv
    /\ pc' = "pipe_loop"
    /\ hist' = [hist EXCEPT !.trace = trace,
                            !.inputs = Append(hist.inputs, tv.train)]

\* lines 120-149: timer start, read, configuration checks, first iterator
fit_predict_start(folds, cv_iter, valid_data, width, span) ==
    /\ args' = [folds |-> folds, cv_iter |-> cv_iter, valid_data |-> valid_data,
                width |-> width, span |-> span]
    /\ reader_used' = Features
    /\ LET train_dataset == ReaderDataset(Features)
           t1 == hist.trace \o <<Ev("timer.start", 0, 0, TRUE),
                                 Ev("fit_read", 0, 0, TRUE)>>
       IN IF ~folds_assert(_levels, folds)
          THEN /\ pc' = "failed"
               /\ outcome' = FoldsError
               /\ hist' = [hist EXCEPT !.trace = t1]
               /\ UNCHANGED <<levels, n, k, pipes, level_predictions,
                              flg_last_level, train_valid>>
          ELSE IF ~holdout_assert(_levels, valid_data)
          THEN /\ pc' = "failed"
               /\ outcome' = HoldoutError
               /\ hist' = [hist EXCEPT !.trace = t1]
               /\ UNCHANGED <<levels, n, k, pipes, level_predictions,
                              flg_last_level, train_valid>>
          ELSE LET valid_dataset == IF valid_data THEN ReaderDataset(Features)
                                    ELSE NoDataset
                   t2 == IF valid_data
                         THEN Append(t1, Ev("read", 0, 0, TRUE)) ELSE t1
               IN /\ levels' = <<>>
                  /\ EnterLevel(1,
                       create_validation_iterator(train_dataset, valid_dataset, cv_iter),
                       Append(t2, Ev("create_validation_iterator", 1, 0, cv_iter)))
                  /\ UNCHANGED outcome
    /\ UNCHANGED <<arg_levels, _levels, has__levels, skip_conn, model_names,
                   child_out_of_time, pipe_used, blended_prediction>>

\* fit_predict called on a constructed orchestrator
fit_predict_begin(folds, cv_iter, valid_data, width, span) ==
    /\ pc = "ready"
    /\ fit_predict_start(folds, cv_iter, valid_data, width, span)

\* fit_predict called again on a trained orchestrator, with the arguments
\* of the first call.  Line 123 reads self._levels, which line 198 deleted:
\* the call ends there with an AttributeError, after the Timer was started
\* and the Reader fitted again (lines 120-121).
fit_predict_again ==
    /\ pc = "trained"
    /\ IF has__levels
       THEN fit_predict_start(args.folds, args.cv_iter, args.valid_data,
                              args.width, args.span)
       ELSE /\ pc' = "refit_failed"
            /\ outcome' = NoLevelsError
            /\ reader_used' = Features
            /\ hist' = [hist EXCEPT
                          !.trace = hist.trace \o <<Ev("timer.start", 0, 0, TRUE),
                                                    Ev("fit_read", 0, 0, TRUE)>>,
                          !.last_call = "fit_predict",
                          !.model_stats = <<>>,
                          !.predict_calls = 0,
                          !.predict_rejects = 0,
                          !.predict_outcome = "none",
                          !.predict_trace = <<>>,
                          !.predict_inputs = <<>>,
                          !.predict_out = NoDataset]
            /\ UNCHANGED <<arg_levels, _levels, has__levels, levels, skip_conn,
                           model_names, args, n, k, pipes, level_predictions,
                           flg_last_level, train_valid, child_out_of_time,
                           pipe_used, blended_prediction>>

\* lines 151-164: fit the next pipeline of the level, then ask the Timer.
\* `exceeded` is what timer.time_limit_exceeded() answers, `child` whether a
\* task of the pipeline ran out of its own budget during the fit.
fit_pipe(exceeded, child) ==
    /\ pc = "pipe_loop"
    /\ k < Len(_levels[n])
    /\ LET ml_pipe == _levels[n][k + 1]
           pipe_pred == PipePrediction(ml_pipe, args.width)
       IN /\ level_predictions' = predictions_append(level_predictions, pipe_pred)
          /\ pipes' = Append(pipes, ml_pipe)
          /\ pipe_used' = [pipe_used EXCEPT
                             ![ml_pipe] = PipeUsedFeatures(ml_pipe, train_valid.train, args.span)]
          /\ hist' = [hist EXCEPT !.trace = hist.trace \o
                        <<Ev("fit", ml_pipe[1], ml_pipe[2], TRUE),
                          Ev("time_limit_exceeded", ml_pipe[1], ml_pipe[2], exceeded)>>]
    /\ child_out_of_time' = (child_out_of_time \/ child)
    /\ k' = k + 1
    /\ flg_last_level' = flag_after_fit(flg_last_level, exceeded)
    /\ pc' = pc_after_fit(exceeded)
    /\ UNCHANGED <<outcome, arg_levels, _levels, has__levels, levels, skip_conn,
                   model_names, args, n, train_valid, reader_used,
                   blended_prediction>>

\* lines 165-171: the else branch of the pipeline loop
pipe_loop_else ==
    /\ pc = "pipe_loop"
    /\ k = Len(_levels[n])
    /\ flg_last_level' = flag_after_loop(flg_last_level, child_out_of_time)
    /\ hist' = [hist EXCEPT !.trace =
                  Append(hist.trace, Ev("child_out_of_time", n, 0, child_out_of_time))]
    /\ pc' = "level_split"
    /\ UNCHANGED <<outcome, arg_levels, _levels, has__levels, levels, skip_conn,
                   model_names, args, n, k, pipes, level_predictions,
                   train_valid, child_out_of_time, reader_used, pipe_used,
                   blended_prediction>>

\* lines 174-191: record the level and build the next level's iterator, or
\* leave the level loop.  `converts` is whether valid_part.from_dataset accepts
\* the prediction Dataset.
level_split(converts) ==
    /\ pc = "level_split"
    /\ IF ~flg_last_level
       THEN /\ levels' = levels_append(levels, pipes)
            /\ LET conc == concatenate(level_predictions)
                   t1 == Append(hist.trace, Ev("concatenate", n, 0, TRUE))
               IN IF skip_conn
                  THEN LET t2 == Append(t1, Ev("from_dataset", n, 0, converts))
                       IN IF conversion_raises(skip_conn, converts)
                          THEN /\ pc' = "failed"
                               /\ outcome' = ConversionError
                               /\ level_predictions' = conc
                               /\ hist' = [hist EXCEPT !.trace = t2]
                               /\ UNCHANGED <<n, k, pipes, flg_last_level, train_valid>>
                          ELSE /\ EnterLevel(n + 1,
                                    create_validation_iterator(
                                        skip_merge(conc, train_valid), NoDataset, FALSE),
                                    t2 \o <<Ev("concatenate", n, 0, TRUE),
                                            Ev("create_validation_iterator", n + 1, 0, FALSE)>>)
                               /\ UNCHANGED outcome
                  ELSE /\ converts
                       /\ EnterLevel(n + 1,
                            create_validation_iterator(conc, NoDataset, FALSE),
                            Append(t1, Ev("create_validation_iterator", n + 1, 0, FALSE)))
                       /\ UNCHANGED outcome
       ELSE /\ converts
            /\ pc' = "blend"
            /\ UNCHANGED <<outcome, levels, n, k, pipes, level_predictions,
                           flg_last_level, train_valid, hist>>
    /\ UNCHANGED <<arg_levels, _levels, has__levels, skip_conn, model_names,
                   args, child_out_of_time, reader_used, pipe_used,
                   blended_prediction>>

\* lines 193-199: blend the last level, prune the Reader's features, return.
\* `last_pipes` is the pipeline list Blender.fit_predict hands back.
blend(last_pipes) ==
    /\ pc = "blend"
    /\ last_pipes \in SubSeqs(pipes)
    /\ blended_prediction' = BlenderOutput(args.width)
    /\ levels' = levels_append(levels, last_pipes)
    /\ LET collected == collect_used_feats(levels', pipe_used)
       IN /\ reader_used' = upd_used_features(reader_used,
                                               unused_features(reader_used, collected))
          /\ hist' = [hist EXCEPT
                        !.trace = hist.trace \o
                            <<Ev("blender.fit_predict", n, 0, TRUE),
                              Ev("upd_used_features", 0, 0, TRUE)>>,
                        !.blender_preds = level_predictions,
                        !.blender_pipes = pipes,
                        !.last_pipes = last_pipes,
                        !.reader_before = reader_used,
                        !.collected = collected]
    /\ has__levels' = del_levels(has__levels)
    /\ _levels' = IF has__levels' THEN _levels ELSE <<>>
    /\ pc' = "trained"
    /\ outcome' = "returned"
    /\ UNCHANGED <<arg_levels, skip_conn, model_names, args, n, k, pipes,
                   level_predictions, flg_last_level, train_valid,
                   child_out_of_time, pipe_used>>

\* ------------------------------------------------------------------------
\* AutoML.predict (lines 201-241)
\* ------------------------------------------------------------------------
\* LevelPredict that stops behind the first pipeline once a child task of
\* the fit had run out of time
LevelPredict_budgeted(level, width) ==
    [j \in 1..(IF child_out_of_time /\ Len(level) > 1 THEN 1 ELSE Len(level)) |->
        PipePrediction(level[j], width)]

\* lines 220-222: the predictions of one level's pipelines on `dataset`
LevelPredict(level, width) ==
    [j \in 1..Len(level) |-> PipePrediction(level[j], width)]

\* NextDataset with the incoming columns put before the predictions
NextDataset_flipped(level, dataset, width, skip) ==
    LET conc == concatenate(LevelPredict(level, width))
    IN IF skip
       THEN concatenate(<<dataset, from_dataset(dataset, conc)>>)
       ELSE conc

\* lines 224-237: the Dataset fed to the level after `level`
NextDataset(level, dataset, width, skip) ==
    LET conc == concatenate(LevelPredict(level, width))
    IN IF skip
       THEN concatenate(<<from_dataset(dataset, conc), dataset>>)
       ELSE conc

\* the Datasets predict feeds to levels 1..m of lv, starting from `dataset`
RECURSIVE PredictInputs(_, _, _, _, _)
PredictInputs(lv, m, dataset, width, skip) ==
    IF m <= 1 THEN <<dataset>>
    ELSE LET before == PredictInputs(lv, m - 1, dataset, width, skip)
         IN Append(before, NextDataset(lv[m - 1], before[m - 1], width, skip))

\* calls predict makes while it runs levels 1..m
PredictTrace(lv, m) ==
    Flatten([i \in 1..m |->
               [j \in 1..Len(LevelPredict(lv[i], args.width)) |->
                   Ev("predict", i, j, TRUE)]])

\* predict_frame with reader.fit_read in the place of reader.read: the
\* Reader forgets which features were pruned
predict_frame_fit_read ==
    /\ reader_used' = Features
    /\ UNCHANGED <<pc, outcome, arg_levels, _levels, has__levels, levels,
                   skip_conn, model_names, args, n, k, pipes, level_predictions,
                   flg_last_level, train_valid, child_out_of_time,
                   pipe_used, blended_prediction>>

\* lines 212-241: predict assigns no attribute of self; the Reader is asked
\* with read (line 212), which keeps its used features, and the Timer is
\* not used
predict_frame ==
    UNCHANGED <<pc, outcome, arg_levels, _levels, has__levels, levels,
                skip_conn, model_names, args, n, k, pipes, level_predictions,
                flg_last_level, train_valid, child_out_of_time, reader_used,
                pipe_used, blended_prediction>>

\* predict can be called once fit_predict has returned (self.levels and the
\* fitted Blender exist); a conversion can fail only under skip_conn, behind
\* a level that is not the last one (lines 224-234)
predict_callable(fail_at) ==
    /\ pc = "trained"
    /\ fail_at \in 0..(Len(levels) - 1)
    /\ fail_at > 0 => skip_conn

\* The whole call.  `fail_at` is the level at which dataset.from_dataset
\* rejects the prediction Dataset (0: it never does).
predict(fail_at) ==
    /\ predict_callable(fail_at)
    /\ predict_frame
    /\ LET dataset == ReaderDataset(reader_used)
           last == IF fail_at > 0 THEN fail_at ELSE Len(levels)
           inputs == PredictInputs(levels, last, dataset, args.width, skip_conn)
       IN hist' = [hist EXCEPT
                     !.last_call = "predict",
                     !.model_stats = <<>>,
                     !.predict_calls = 1,
                     !.predict_rejects = fail_at,
                     !.predict_outcome =
                        IF fail_at > 0
                        THEN ConversionError
                        ELSE "returned",
                     !.predict_trace =
                        <<Ev("read", 0, 0, FALSE)>> \o PredictTrace(levels, last) \o
                        (IF fail_at > 0 THEN <<Ev("from_dataset", fail_at, 0, FALSE)>>
                         ELSE <<Ev("blender.predict", last, 0, TRUE)>>),
                     !.predict_inputs = inputs,
                     !.predict_out =
                        IF fail_at > 0 THEN NoDataset ELSE BlenderOutput(args.width)]

\* ------------------------------------------------------------------------
\* AutoML.collect_model_stats (lines 260-274)
\* ------------------------------------------------------------------------
\* dict_store that adds the count to the one already stored under the name
dict_store_sum(stats, name, count) ==
    [x \in DOMAIN stats \cup {name} |->
        IF x = name
        THEN (IF name \in DOMAIN stats THEN stats[name] + count ELSE count)
        ELSE stats[x]]

\* line 272: model_stats[ml_algo.name] = len(ml_algo.models)
dict_store(stats, name, count) ==
    [x \in DOMAIN stats \cup {name} |-> IF x = name THEN count ELSE stats[x]]

\* lines 269-271: the trainable units in the order the three loops visit them
UnitsInOrder(lv) ==
    Flatten([i \in 1..Len(lv) |->
               Flatten([j \in 1..Len(lv[i]) |-> ml_algos(lv[i][j])])])

\* lines 267-274: the dict after the loops have stored the units one by one
RECURSIVE StoreAll(_)
StoreAll(us) ==
    IF us = <<>> THEN <<>>
    ELSE LET m == Len(us)
         IN dict_store(StoreAll(SubSeq(us, 1, m - 1)), us[m].name, us[m].models)

\* The whole call, on a trained orchestrator.
collect_model_stats ==
    /\ pc = "trained"
    /\ hist' = [hist EXCEPT
                  !.last_call = "collect_model_stats",
                  !.model_stats = StoreAll(UnitsInOrder(levels)),
                  !.predict_calls = 0,
                  !.predict_rejects = 0,
                  !.predict_outcome = "none",
                  !.predict_trace = <<>>,
                  !.predict_inputs = <<>>,
                  !.predict_out = NoDataset]
    /\ UNCHANGED <<pc, outcome, arg_levels, _levels, has__levels, levels,
                   skip_conn, model_names, args, n, k, pipes, level_predictions,
                   flg_last_level, train_valid, child_out_of_time, reader_used,
                   pipe_used, blended_prediction>>

\* ------------------------------------------------------------------------
\* Specification
\* ------------------------------------------------------------------------
\* construction and the first fit_predict
NextFit ==
    \/ _initialize
    \/ \E folds \in BOOLEAN, cv_iter \in BOOLEAN, valid_data \in BOOLEAN,
          b \in PipeBehaviours :
            fit_predict_begin(folds, cv_iter, valid_data, b.width, b.span)
    \/ \E exceeded \in BOOLEAN, child \in BOOLEAN : fit_pipe(exceeded, child)
    \/ pipe_loop_else
    \/ \E converts \in BOOLEAN : level_split(converts)
    \/ \E last_pipes \in SubSeqs(pipes) : blend(last_pipes)

\* calls on the trained orchestrator
NextTrained ==
    \/ fit_predict_again
    \/ \E fail_at \in 0..MaxLevels : predict(fail_at)
    \/ collect_model_stats

Next == NextFit \/ NextTrained

\* the orchestrator from construction on, with every call
Spec == Init /\ [][Next]_vars

\* the orchestrator up to the return of its fit_predict
FitSpec == Init /\ [][NextFit]_vars

\* ------------------------------------------------------------------------
\* Properties
\* ------------------------------------------------------------------------
IsPrefix(s, t) == Len(s) <= Len(t) /\ SubSeq(t, 1, Len(s)) = s

\* fit_predict has been called
Called == hist.trace # <<>>

\* position in hist.trace of the events with the given op
At(op) == {i \in 1..Len(hist.trace) : hist.trace[i].op = op}

\* the pipeline loop of level n has ended and the level is the final one
MarkedFinal == flg_last_level /\ pc \in {"level_split", "blend", "trained"}

\* every configured level has at least one pipeline
NoEmptyLevel == \A l \in 1..Len(arg_levels) : arg_levels[l] # <<>>

\* C1 as stated (for configurations without empty levels): with more than one
\* level, fit_predict fails with the fold configuration error, before any
\* pipeline is fitted, exactly when the training Dataset has no folds and no
\* cv_iter is supplied; with folds or a cv_iter (and no holdout data) the
\* check passes and level 1 is entered.
C1_AsStated ==
    (Called /\ Len(arg_levels) > 1 /\ NoEmptyLevel) =>
        /\ (outcome = FoldsError) <=> (~args.folds /\ ~args.cv_iter)
        /\ ((args.folds \/ args.cv_iter) /\ ~args.valid_data)
              => (pc # "failed" \/ outcome = ConversionError)

\* C1 amended: with more than one level, fit_predict fails with the fold
\* configuration error exactly when the training Dataset has no folds,
\* whether or not a cv_iter is supplied, and then no pipeline has been fitted
\* and no ValidationIterator built; with folds and no holdout data the checks
\* pass, the first ValidationIterator is built and level 1 is entered.
C1_FoldsRequired ==
    (Called /\ Len(arg_levels) > 1) =>
        /\ (outcome = FoldsError) <=> ~args.folds
        /\ (outcome = FoldsError) =>
              /\ pc = "failed"
              /\ At("fit") = {}
              /\ At("create_validation_iterator") = {}
              /\ hist.inputs = <<>>
        /\ (args.folds /\ ~args.valid_data) =>
              /\ outcome \notin {FoldsError, HoldoutError}
              /\ At("create_validation_iterator") # {}
              /\ Len(hist.inputs) >= 1

\* C1 witness: a multi-level run without folds but with a cv_iter has failed
C1_Witness ==
    /\ Len(arg_levels) > 1
    /\ ~args.folds
    /\ args.cv_iter
    /\ ~args.valid_data
    /\ outcome = FoldsError


\* number of pipelines of level l fitted so far
FitsOf(l) == Cardinality({i \in At("fit") : hist.trace[i].lvl = l})

\* the Timer has answered "exceeded" or "child out of time" to the orchestrator
BudgetSignal ==
    \E i \in At("time_limit_exceeded") \cup At("child_out_of_time") : hist.trace[i].flag

\* every fit so far is in declaration order, and at the end of the final
\* level's loop the fits are levels 1..n-1 followed by `fitted` pipelines of level n
FitsArePrefix ==
    /\ IsPrefix(Fits(hist.trace), Flatten(arg_levels))
    /\ MarkedFinal =>
          /\ n = Len(hist.inputs)
          /\ Fits(hist.trace) =
                Flatten(SubSeq(arg_levels, 1, n - 1)) \o SubSeq(arg_levels[n], 1, FitsOf(n))

\* after the Timer reported the budget exceeded behind pipeline j of level l
\* nothing more is fitted, no iterator is built, level l is the final one and
\* the Blender gets pipelines 1..j of level l
ExceededStopsRun ==
    \A i \in At("time_limit_exceeded") :
        hist.trace[i].flag =>
            LET l == hist.trace[i].lvl
                j == hist.trace[i].pip
            IN /\ \A m \in At("fit") \cup At("create_validation_iterator") : m < i
               /\ flg_last_level /\ n = l
               /\ pipes = SubSeq(arg_levels[l], 1, j)
               /\ Len(levels) = (IF At("blender.fit_predict") # {} THEN l ELSE l - 1)
               /\ pc = "trained" => hist.blender_pipes = SubSeq(arg_levels[l], 1, j)

\* C2 as stated: the fits are, in declaration order, all pipelines of levels
\* 1..k-1 and a non-empty prefix of the final level k; after "exceeded" behind
\* pipeline j of level k nothing more is fitted and pipelines 1..j go to the Blender.
C2_AsStated ==
    /\ FitsArePrefix
    /\ MarkedFinal => FitsOf(n) >= 1
    /\ ExceededStopsRun

\* C2 amended: as stated, but the prefix of the final level k is non-empty only
\* if level k has pipelines at all (a configured level may be empty, and then
\* the Blender is handed an empty list).
C2_FitsTruncatedPrefix ==
    /\ FitsArePrefix
    /\ MarkedFinal => (arg_levels[n] # <<>> => FitsOf(n) >= 1)
    /\ ExceededStopsRun

\* C2 witness: the budget was exceeded behind the first of two pipelines of
\* level 2, and the run has returned
C2_Witness ==
    /\ pc = "trained"
    /\ Len(arg_levels) = 3
    /\ Len(arg_levels[2]) = 2
    /\ \E i \in At("time_limit_exceeded") :
          hist.trace[i] = Ev("time_limit_exceeded", 2, 1, TRUE)
    /\ Fits(hist.trace) = arg_levels[1] \o <<<<2, 1>>>>

\* sum of the widths of the predictions of a level's pipelines
RECURSIVE SumWidths(_)
SumWidths(level) ==
    IF level = <<>> THEN 0
    ELSE Len(PipePrediction(Head(level), args.width).cols) + SumWidths(Tail(level))

C4_RetainedLevels ==
    (pc = "trained") =>
        LET kf == Len(hist.inputs)
        IN /\ MarkedFinal /\ n = kf
           /\ Len(levels) = kf
           /\ \A i \in 1..(kf - 1) : levels[i] = arg_levels[i]
           /\ levels[kf] = hist.last_pipes
           /\ ~BudgetSignal => kf = Len(arg_levels)

\* C4 witness: a run cut at level 2 of 3 returned, and the Blender pruned
C4_Witness ==
    /\ pc = "trained"
    /\ Len(arg_levels) = 3
    /\ Len(levels) = 2
    /\ Len(levels[1]) = 2
    /\ Len(hist.blender_pipes) = 2
    /\ Len(hist.last_pipes) = 1


\* the prediction columns of a level's pipelines, in the pipelines' order
PredColsOf(level) ==
    Flatten([j \in 1..Len(level) |->
               [c \in 1..args.width |-> PredCol(level[j], c)]])

\* in the list `inp` of level inputs, the input of level i is made of the
\* predictions of level i-1 followed, with skip_conn, by the input of level i-1
LineageAt(inp, i) ==
    inp[i].cols = PredColsOf(arg_levels[i - 1]) \o
                  (IF skip_conn THEN inp[i - 1].cols ELSE <<>>)

\* C5: for every retained level i > 1, predict and fit_predict feed level i
\* with the same lineage: the prediction columns of all pipelines of level
\* i-1 in order, then, iff skip_conn, the columns of level i-1's own input.
C5_SameLineage ==
    /\ \A i \in 2..Len(hist.inputs) : LineageAt(hist.inputs, i)
    /\ \A i \in 2..Len(hist.predict_inputs) :
          /\ LineageAt(hist.predict_inputs, i)
          /\ i <= Len(hist.inputs)
          /\ levels[i - 1] = arg_levels[i - 1]
    /\ hist.predict_outcome = "returned" =>
          Len(hist.predict_inputs) = Len(levels)

\* C5 witness: predict ran three retained levels of a skip_conn orchestrator
C5_Witness ==
    /\ skip_conn
    /\ hist.predict_outcome = "returned"
    /\ Len(levels) = 3
    /\ Len(levels[1]) = 2
    /\ Len(levels[2]) = 2
    /\ Len(hist.predict_inputs) = 3

\* the pipelines of the retained levels
Retained == {levels[i][j] : <<i, j>> \in
                {<<i, j>> \in (1..Len(levels)) \X (1..MaxPipes) : j <= Len(levels[i])}}

\* the prediction columns of the retained levels before the last one
EarlierPredictions ==
    {c \in UNION {Range(hist.inputs[i].cols) : i \in 1..Len(hist.inputs)} :
        c.kind = "pred"}

\* C6 as stated: after a returned fit_predict every name collect_used_feats()
\* returns is one of the features the Reader produced, whatever the number of
\* levels and skip_conn.
C6_AsStated ==
    (pc = "trained") => hist.collected \subseteq hist.reader_before

\* C6 amended: after a returned fit_predict every name collect_used_feats()
\* returns is an input column used by a retained pipeline: one of the Reader's
\* features or a prediction column of an earlier retained level; with a single
\* retained level all of them are Reader features.
C6_UsedFeatsAreInputs ==
    (pc = "trained") =>
        /\ \A f \in hist.collected : \E p \in Retained : f \in pipe_used[p]
        /\ hist.collected \subseteq (hist.reader_before \cup EarlierPredictions)
        /\ Len(levels) = 1 => hist.collected \subseteq hist.reader_before

\* C6 witness: a retained pipeline of level 2 uses a prediction column
C6_Witness ==
    /\ pc = "trained"
    /\ Len(levels) = 2
    /\ \E f \in hist.collected : f.kind = "pred"
    /\ \E f \in hist.collected : f.kind = "feat"

\* C7: after a returned fit_predict the Reader's used features are exactly
\* those of its features before the update that some retained pipeline uses:
\* a feature used only by pruned or never fitted pipelines is gone, every
\* other one is kept.
C7_ReaderPruned ==
    (pc = "trained") =>
        /\ reader_used =
              {f \in hist.reader_before : \E p \in Retained : f \in pipe_used[p]}
        /\ hist.reader_before \ reader_used = hist.reader_before \ hist.collected

\* C7 witness: the Blender pruned a pipeline that alone used a feature; that
\* feature is gone and another one is kept
C7_Witness ==
    /\ pc = "trained"
    /\ reader_used # {}
    /\ \E p \in Range(hist.blender_pipes) \ Range(hist.last_pipes) :
          \E f \in pipe_used[p] : f \in hist.reader_before \ reader_used


\* fit_predict is between its configuration checks and its end
Running == pc \in {"pipe_loop", "level_split", "blend"}

\* steps fit_predict can still take, at most
StepsLeft ==
    IF ~Running THEN 0
    ELSE (Len(arg_levels) - n) * (MaxPipes + 3) +
         (CASE pc = "pipe_loop" -> 3 + Len(arg_levels[n]) - k
            [] pc = "level_split" -> 2
            [] pc = "blend" -> 1)

\* C8: whatever the Timer answers, a fit_predict that passed the
\* configuration checks ends (while it runs it can take a step, and every
\* step brings its end nearer), and it ends by returning the Blender's blended
\* prediction unless a skip-connection conversion failed; after a budget
\* signal the run never ends in an error.
C8_BudgetNeverAborts ==
    /\ [](Len(hist.inputs) >= 1 /\ pc # "refit_failed" =>
             \/ Running /\ ENABLED Next
             \/ /\ outcome = "returned" /\ pc = "trained"
                /\ Cardinality(At("blender.fit_predict")) = 1
                /\ blended_prediction = BlenderOutput(args.width)
             \/ /\ outcome = ConversionError /\ pc = "failed"
                /\ ~BudgetSignal)
    /\ [][Running => StepsLeft' < StepsLeft]_vars

\* C8 witness: the budget was exceeded behind the very first pipeline of a
\* three-level configuration, and fit_predict returned the blended prediction
C8_Witness ==
    /\ Len(arg_levels) = 3
    /\ \E i \in At("time_limit_exceeded") :
          hist.trace[i] = Ev("time_limit_exceeded", 1, 1, TRUE)
    /\ outcome = "returned"
    /\ blended_prediction = BlenderOutput(args.width)

\* C9: the child signal is looked at exactly when the pipeline loop of a level
\* ended with every pipeline fitted and the budget never reported exceeded in
\* it; if it is set then, the level is the final one: nothing more is fitted,
\* no Dataset is concatenated and no iterator built from its predictions, and
\* the Blender gets all pipelines of the level.
C9_ChildSignal ==
    /\ \A i \in At("child_out_of_time") :
          LET l == hist.trace[i].lvl
          IN /\ FitsOf(l) = Len(arg_levels[l])
             /\ \A m \in At("time_limit_exceeded") :
                   hist.trace[m].lvl = l => ~hist.trace[m].flag
             /\ hist.trace[i].flag =>
                   /\ \A m \in At("fit") \cup At("concatenate")
                                  \cup At("create_validation_iterator") : m < i
                   /\ flg_last_level /\ n = l /\ Len(hist.inputs) = l
                   /\ pipes = arg_levels[l]
                   /\ pc = "trained" =>
                         /\ hist.blender_pipes = arg_levels[l]
                         /\ Len(levels) = l
    /\ \A i \in At("time_limit_exceeded") :
          hist.trace[i].flag =>
             \A m \in At("child_out_of_time") : hist.trace[m].lvl # hist.trace[i].lvl
    /\ (pc = "level_split" /\ FitsOf(n) = Len(arg_levels[n])
          /\ ~\E m \in At("time_limit_exceeded") :
                 hist.trace[m].lvl = n /\ hist.trace[m].flag) =>
          /\ hist.trace[Len(hist.trace)] = Ev("child_out_of_time", n, 0, child_out_of_time)
          /\ child_out_of_time => flg_last_level

\* C9 witness: level 1 of three was fitted completely, the child signal was
\* set at the end of its loop, and the Blender got both its pipelines
C9_Witness ==
    /\ pc = "trained"
    /\ Len(arg_levels) = 3
    /\ \E i \in At("child_out_of_time") : hist.trace[i] = Ev("child_out_of_time", 1, 0, TRUE)
    /\ hist.blender_pipes = <<<<1, 1>>, <<1, 2>>>>
    /\ Len(levels) = 1

\* C10: when from_dataset rejects the predictions of a non-final level under
\* skip_conn, fit_predict ends there with the conversion TypeError: no iterator
\* for the next level, no further fit, no Blender call, no continuation
\* without the skip connection.
C10_ConversionFails ==
    /\ \A i \in At("from_dataset") :
          ~hist.trace[i].flag =>
             /\ i = Len(hist.trace)
             /\ pc = "failed" /\ outcome = ConversionError
             /\ skip_conn
             /\ hist.trace[i].lvl = n /\ n < Len(arg_levels)
             /\ Len(hist.inputs) = n
             /\ Cardinality(At("create_validation_iterator")) = n
             /\ At("blender.fit_predict") = {}
             /\ blended_prediction = NoDataset
    /\ outcome = ConversionError =>
          \E i \in At("from_dataset") : ~hist.trace[i].flag

\* C10 witness: the conversion failed behind level 2 of three levels
C10_Witness ==
    /\ outcome = ConversionError
    /\ Len(arg_levels) = 3
    /\ n = 2
    /\ FitsOf(2) = 2

\* ------------------------------------------------------------------------
\* C11
\* ------------------------------------------------------------------------
\* C11: configuration errors come before all training work.  Constructing
\* with an empty list of levels fails; fit_predict with more than one level
\* and holdout validation data fails; and when either error is raised no
\* pipeline has been fitted, no ValidationIterator has been constructed, the
\* Blender has not been invoked and no level is retained.
C11_ConfigErrorsFirst ==
    /\ pc # "new" /\ Len(arg_levels) = 0 =>
          pc = "failed" /\ outcome = EmptyLevelsError
    /\ Called /\ Len(arg_levels) > 1 /\ args.valid_data =>
          /\ pc = "failed"
          /\ outcome = IF args.folds THEN HoldoutError ELSE FoldsError
    /\ outcome = EmptyLevelsError => Len(arg_levels) = 0 /\ ~Called
    /\ outcome = HoldoutError => Len(arg_levels) > 1 /\ args.valid_data
    /\ outcome \in {EmptyLevelsError, HoldoutError} =>
          /\ pc = "failed"
          /\ At("fit") = {}
          /\ At("create_validation_iterator") = {}
          /\ At("blender.fit_predict") = {}
          /\ levels = <<>>
          /\ blended_prediction = NoDataset

\* C11 witness: two levels, folds present, holdout data passed: the holdout
\* assertion fired after the Reader had read the training data
C11_Witness ==
    /\ outcome = HoldoutError
    /\ Len(arg_levels) = 2
    /\ args.folds /\ args.valid_data
    /\ hist.trace = <<Ev("timer.start", 0, 0, TRUE), Ev("fit_read", 0, 0, TRUE)>>

\* ------------------------------------------------------------------------
\* C12
\* ------------------------------------------------------------------------
\* what the last predict call did and returned
PredictRecord ==
    <<hist.predict_outcome, hist.predict_trace, hist.predict_inputs,
      hist.predict_out>>

\* C12: a predict call leaves the trained orchestrator as it was: the
\* retained levels, skip_conn, the Reader's used features and everything the
\* Timer was asked stay the same; and a predict call that follows another
\* one, with from_dataset behaving the same way, runs the same sequence of
\* pipeline predictions on the same Datasets and returns the same output.
C12_PredictIdempotent ==
    [][pc = "trained" /\ pc' = "trained" =>
         /\ levels' = levels
         /\ skip_conn' = skip_conn
         /\ reader_used' = reader_used
         /\ child_out_of_time' = child_out_of_time
         /\ hist'.trace = hist.trace
         /\ pipe_used' = pipe_used
         /\ model_names' = model_names
         /\ ((hist.last_call = "predict" /\ hist'.last_call = "predict"
               /\ hist'.predict_rejects = hist.predict_rejects)
                  => PredictRecord' = PredictRecord)]_vars

\* C12 witness: predict has returned on two retained levels with a pruned
\* Reader after running both levels; from this state a further predict call
\* leads back to it
C12_Witness ==
    /\ pc = "trained"
    /\ hist.last_call = "predict"
    /\ hist.predict_outcome = "returned"
    /\ Len(levels) = 2
    /\ reader_used # Features
    /\ Len(hist.predict_trace) >= 4

\* ------------------------------------------------------------------------
\* C13
\* ------------------------------------------------------------------------
\* levels at which the Timer gave a budget signal
SignalLevels ==
    {hist.trace[i].lvl : i \in {m \in At("time_limit_exceeded") \cup At("child_out_of_time") :
                                   hist.trace[m].flag}}

\* the level that the run has to mark final: the one with the budget signal,
\* the last configured one without a signal
FinalLevel ==
    IF SignalLevels = {} THEN Len(arg_levels)
    ELSE CHOOSE l \in SignalLevels : \A m \in SignalLevels : l <= m

\* C13: a fit_predict that returned invoked the Blender's fit_predict exactly
\* once, after every pipeline fit, and constructed as many ValidationIterators
\* as the index of the level marked final (the first one and one behind every
\* non-final level); with a single configured level that is exactly one.
\* While the run goes on the Blender has not been invoked and one iterator
\* has been constructed per level entered.
C13_OneBlendKIterators ==
    LET iterators == At("create_validation_iterator")
        blends == At("blender.fit_predict")
    IN /\ outcome = "returned" =>
             /\ Cardinality(blends) = 1
             /\ \A b \in blends :
                   /\ \A f \in At("fit") \cup iterators : f < b
                   /\ hist.trace[b].lvl = n
             /\ n = FinalLevel
             /\ Cardinality(iterators) = n
             /\ {hist.trace[i].lvl : i \in iterators} = 1..n
             /\ Len(arg_levels) = 1 => Cardinality(iterators) = 1
       /\ Running =>
             /\ blends = {}
             /\ Cardinality(iterators) = n

\* C13 witness: three levels, a budget signal behind level 2: two iterators,
\* one Blender call behind the fits
C13_Witness ==
    /\ outcome = "returned"
    /\ Len(arg_levels) = 3
    /\ n = 2
    /\ Cardinality(At("create_validation_iterator")) = 2
    /\ FitsOf(2) >= 1
    /\ hist.trace[Len(hist.trace) - 1].op = "blender.fit_predict"

\* ------------------------------------------------------------------------
\* C14
\* ------------------------------------------------------------------------
\* operations of the Timer
TimerOps == {"timer.start", "time_limit_exceeded", "child_out_of_time"}

\* number of pipeline predictions the last predict ran in level i
PredictsOf(i) ==
    Cardinality({m \in 1..Len(hist.predict_trace) :
                   /\ hist.predict_trace[m].op = "predict"
                   /\ hist.predict_trace[m].lvl = i})

\* C14: fit_predict asks the Timer's exceeded-budget signal only right after
\* a pipeline's fit has returned, for that pipeline: never before the first
\* fit of a level and never between two levels.  predict never asks the
\* Timer: whatever was signalled during the fit, a predict that returns has
\* run every pipeline of every retained level, and one that stopped on a
\* conversion error has run every pipeline of every level up to there.
C14_TimerOnlyAfterFit ==
    /\ \A i \in At("time_limit_exceeded") :
          /\ i > 1
          /\ hist.trace[i - 1] =
                Ev("fit", hist.trace[i].lvl, hist.trace[i].pip, TRUE)
    /\ hist.predict_calls >= 1 =>
          /\ \A m \in 1..Len(hist.predict_trace) :
                hist.predict_trace[m].op \notin TimerOps
          /\ hist.predict_outcome = "returned" =>
                \A i \in 1..Len(levels) : PredictsOf(i) = Len(levels[i])
          /\ hist.predict_outcome # "returned" =>
                /\ hist.predict_rejects \in 1..(Len(levels) - 1)
                /\ \A i \in 1..hist.predict_rejects : PredictsOf(i) = Len(levels[i])

\* C14 witness: a child task ran out of time in level 1 of two levels, both
\* pipelines of the level are retained, and predict ran both
C14_Witness ==
    /\ hist.predict_calls >= 1
    /\ hist.predict_outcome = "returned"
    /\ child_out_of_time
    /\ Len(arg_levels) = 2
    /\ Len(levels) = 1
    /\ Len(levels[1]) = 2
    /\ PredictsOf(1) = 2
    /\ Cardinality(At("time_limit_exceeded")) = 2

\* ------------------------------------------------------------------------
\* C15
\* ------------------------------------------------------------------------
\* the units of the retained pipelines, level by level, pipeline by pipeline,
\* unit by unit
RetainedUnits ==
    Flatten([i \in 1..Len(levels) |->
               Flatten([j \in 1..Len(levels[i]) |-> ml_algos(levels[i][j])])])

\* position of the last unit called `name`
LastNamed(us, name) ==
    CHOOSE m \in 1..Len(us) :
        /\ us[m].name = name
        /\ \A m2 \in (m + 1)..Len(us) : us[m2].name # name

\* C15: collect_model_stats returns a mapping with exactly one entry per
\* distinct unit name found in the retained pipelines, and the value under a
\* name is the number of trained models of the last unit of that name in
\* level, then pipeline, then unit order: overwritten, never summed.
C15_StatsLastWins ==
    hist.last_call = "collect_model_stats" =>
        LET us == RetainedUnits
        IN /\ DOMAIN hist.model_stats = {us[m].name : m \in 1..Len(us)}
           /\ \A name \in DOMAIN hist.model_stats :
                 hist.model_stats[name] = us[LastNamed(us, name)].models

\* C15 witness: two retained levels of two and one pipelines whose units
\* share names within and across pipelines; the mapping has the two names
\* with the counts of the last units of level 2
C15_Witness ==
    /\ hist.last_call = "collect_model_stats"
    /\ levels = <<<<<<1, 1>>, <<1, 2>>>>, <<<<2, 2>>>>>>
    /\ hist.model_stats = [Linear |-> 4, LightGBM |-> 2]

\* ------------------------------------------------------------------------
\* C16
\* ------------------------------------------------------------------------
\* the pipelines of the configuration
Configured ==
    {p \in AllPipes : p[1] <= Len(arg_levels) /\ p[2] <= Len(arg_levels[p[1]])}

\* every configured pipeline was named exactly once, no other pipeline was
\* named, and no two pipelines got the same name
NamedOnceAndUnique ==
    /\ \A p \in Configured : Len(model_names[p]) = 1
    /\ \A p \in AllPipes \ Configured : model_names[p] = <<>>
    /\ \A p, q \in Configured : p # q => model_names[p] # model_names[q]

\* C16 as stated: when the constructor has returned, the pipeline at
\* zero-based level i and position j has the prefix Level_<i>_Pipe_<j>, is
\* named exactly once, and no two pipelines have the same name.
C16_AsStated ==
    pc = "ready" =>
        /\ \A p \in Configured :
              model_names[p] =
                 <<"Level_" \o ToString(p[1] - 1) \o "_Pipe_" \o ToString(p[2] - 1)>>
        /\ NamedOnceAndUnique

\* C16 amended: as stated, but the prefix is Lvl_<i>_Pipe_<j>.
C16_NamesLvlPipe ==
    pc = "ready" =>
        /\ \A p \in Configured :
              model_names[p] =
                 <<"Lvl_" \o ToString(p[1] - 1) \o "_Pipe_" \o ToString(p[2] - 1)>>
        /\ NamedOnceAndUnique

\* C16 witness: a constructed orchestrator of two levels with two pipelines
\* each; the second pipeline of the second level is Lvl_1_Pipe_1
C16_Witness ==
    /\ pc = "ready"
    /\ Len(arg_levels) = 2
    /\ Len(arg_levels[1]) = 2 /\ Len(arg_levels[2]) = 2
    /\ model_names[<<2, 2>>] = <<"Lvl_1_Pipe_1">>
    /\ model_names[<<1, 1>>] = <<"Lvl_0_Pipe_0">>

\* ------------------------------------------------------------------------
\* C17
\* ------------------------------------------------------------------------
\* In the list `inp` of level inputs, the Dataset fed to level i + 1 starts
\* with the prediction columns of level i, pipeline after pipeline in
\* declared order and column after column, and goes on, iff skip_conn, with
\* the columns of the Dataset fed to level i at the same relative places.
PredsThenIncoming(inp, i) ==
    LET cols == inp[i + 1].cols
        incoming == inp[i].cols
        w == args.width
        s == w * Len(arg_levels[i])
    IN /\ Len(cols) = s + (IF skip_conn THEN Len(incoming) ELSE 0)
       /\ \A a \in 1..s :
             cols[a] = PredCol(arg_levels[i][((a - 1) \div w) + 1], ((a - 1) % w) + 1)
       /\ \A a \in (s + 1)..Len(cols) : cols[a] = incoming[a - s]

\* C17: in fit_predict as in predict, the Dataset built for the next level
\* lists the prediction columns of the level's pipelines in declared order
\* and, with skip_conn, the incoming columns behind all of them in their
\* original order; no incoming column stands between two prediction columns.
C17_ColumnOrder ==
    /\ \A i \in 1..(Len(hist.inputs) - 1) : PredsThenIncoming(hist.inputs, i)
    /\ \A i \in 1..(Len(hist.predict_inputs) - 1) :
          /\ levels[i] = arg_levels[i]
          /\ PredsThenIncoming(hist.predict_inputs, i)

\* C17 witness: with skip_conn, two pipelines of two columns each in level 1,
\* fit_predict and predict both built the level 2 Dataset as four prediction
\* columns followed by the two features
C17_Witness ==
    /\ skip_conn
    /\ hist.last_call = "predict"
    /\ Len(hist.predict_inputs) = 2
    /\ hist.predict_inputs[2].cols =
          <<PredCol(<<1, 1>>, 1), PredCol(<<1, 1>>, 2),
            PredCol(<<1, 2>>, 1), PredCol(<<1, 2>>, 2)>> \o hist.predict_inputs[1].cols
    /\ hist.inputs[2].cols =
          <<PredCol(<<1, 1>>, 1), PredCol(<<1, 1>>, 2),
            PredCol(<<1, 2>>, 1), PredCol(<<1, 2>>, 2), FeatCol(1), FeatCol(2)>>

\* ------------------------------------------------------------------------
\* C18
\* ------------------------------------------------------------------------
\* C18: what the one Blender.fit_predict call receives comes from the final
\* level n only: the list of pipelines is a prefix of the configured level
\* n, the list of predictions has the same length, and prediction m holds
\* the columns produced by pipeline m and nothing else.  When no configured
\* level is empty the lists are not empty, also when the budget was
\* exceeded behind the first pipeline of the first level.
C18_BlenderInput ==
    At("blender.fit_predict") # {} =>
        /\ Len(hist.blender_preds) = Len(hist.blender_pipes)
        /\ IsPrefix(hist.blender_pipes, arg_levels[n])
        /\ \A m \in 1..Len(hist.blender_pipes) : hist.blender_pipes[m][1] = n
        /\ \A m \in 1..Len(hist.blender_preds) :
              /\ hist.blender_preds[m].cols # <<>>
              /\ \A c \in 1..Len(hist.blender_preds[m].cols) :
                    LET col == hist.blender_preds[m].cols[c]
                    IN /\ col.kind = "pred"
                       /\ <<col.lvl, col.pip>> = hist.blender_pipes[m]
        /\ NoEmptyLevel => hist.blender_pipes # <<>>

\* C18 witness: two levels of two pipelines, the budget was exceeded behind
\* the first pipeline of level 1, and the Blender received that one pipeline
\* with its prediction
C18_Witness ==
    /\ outcome = "returned"
    /\ Len(arg_levels) = 2
    /\ Len(arg_levels[1]) = 2 /\ Len(arg_levels[2]) = 2
    /\ \E i \in At("time_limit_exceeded") :
          hist.trace[i] = Ev("time_limit_exceeded", 1, 1, TRUE)
    /\ hist.blender_pipes = <<<<1, 1>>>>
    /\ Len(hist.blender_preds) = 1

\* ------------------------------------------------------------------------
\* C19
\* ------------------------------------------------------------------------
\* C19: fit_predict is one-shot.  A fit_predict that returned has discarded
\* the original configuration; on the trained orchestrator predict can be
\* called (its enabling condition holds, the rest of the call is
\* assignments), however many calls went before, and a further fit_predict
\* always fails: it fits no pipeline, builds no iterator, does not reach the
\* Blender, and leaves the retained levels of the first run as they were.
C19_FitPredictOneShot ==
    /\ [](pc = "trained" =>
             /\ ~has__levels
             /\ predict_callable(0)
             /\ ENABLED fit_predict_again)
    /\ [](pc = "refit_failed" =>
             /\ outcome = NoLevelsError
             /\ ~has__levels
             /\ Len(levels) = n
             /\ \A i \in 1..(n - 1) : levels[i] = arg_levels[i]
             /\ levels[n] = hist.last_pipes
             /\ Cardinality(At("blender.fit_predict")) = 1
             /\ \A b \in At("blender.fit_predict") :
                   \A f \in At("fit") \cup At("create_validation_iterator") : f < b)
    /\ [][pc = "trained" /\ pc' # "trained" =>
             /\ pc' = "refit_failed"
             /\ levels' = levels
             /\ Fits(hist'.trace) = Fits(hist.trace)
             /\ At("create_validation_iterator")' = At("create_validation_iterator")
             /\ At("blender.fit_predict")' = At("blender.fit_predict")
             /\ blended_prediction' = blended_prediction]_vars

\* C19 witness: fit_predict was called again after a run over two levels; it
\* failed on the missing configuration, behind a second Timer start and a
\* second fit of the Reader, and the two retained levels are still there
C19_Witness ==
    /\ pc = "refit_failed"
    /\ outcome = NoLevelsError
    /\ Len(levels) = 2
    /\ levels[1] = arg_levels[1]
    /\ Cardinality(At("timer.start")) = 2
    /\ Cardinality(At("fit_read")) = 2
    /\ Cardinality(At("fit")) >= 2

\* ------------------------------------------------------------------------
\* C20
\* ------------------------------------------------------------------------
\* C20: when fit_predict ends with the conversion error behind level n, the
\* orchestrator is half trained: the retained list is the complete, unpruned
\* pipeline lists of levels 1..n (level n was recorded before the conversion
\* was tried), the original configuration is still there, and the Reader's
\* used features are the ones it had after fit_read: nothing was pruned.
C20_PartialState ==
    outcome = ConversionError =>
        /\ pc = "failed"
        /\ n \in 1..(Len(arg_levels) - 1)
        /\ levels = SubSeq(arg_levels, 1, n)
        /\ pipes = arg_levels[n]
        /\ has__levels /\ _levels = arg_levels
        /\ reader_used = Features
        /\ At("upd_used_features") = {}
        /\ At("blender.fit_predict") = {}
        /\ hist.last_pipes = <<>>

\* C20 witness: the conversion failed behind level 2 of three levels of two
\* pipelines; both levels are retained in full and the Reader has every feature
C20_Witness ==
    /\ outcome = ConversionError
    /\ Len(arg_levels) = 3
    /\ levels = <<<<<<1, 1>>, <<1, 2>>>>, <<<<2, 1>>, <<2, 2>>>>>>
    /\ has__levels
    /\ reader_used = Features

====
